---- MODULE Spec2Model ----
(***************************************************************************)
(* Genre-combo circle-graph layout engine of nts-explorer.                 *)
(*                                                                         *)
(* The engine is the group of pure functions at the top of the tile canvas *)
(* component (buildGenreFrequency, pickTopGenres, groupTracksByTopGenres,  *)
(* calculateCircularTilePositions, computeGenreEdges, packCircles,         *)
(* calculateCircleGraphLayout).  Strings are modelled as sequences of      *)
(* UTF-16 code units so that toLowerCase, join, split, the code-unit   *)
(* order of Array.prototype.sort() and of `<`, and the collation order of  *)
(* localeCompare are computed and not assumed.                             *)
(***************************************************************************)
EXTENDS Integers, Sequences, FiniteSets, TLC

----------------------------------------------------------------------------
(* Strings.  A string is the sequence of its UTF-16 code units, as in the  *)
(* language: "jazz" is <<106, 97, 122, 122>>.                              *)

SPACE == 32     \* " "
SLASH == 47     \* "/"
BAR_UNIT == 124 \* "|"

IsUpper(c) == c >= 65 /\ c <= 90

\* String.prototype.toLowerCase on one code unit.
LowerUnit(c) == IF IsUpper(c) THEN c + 32 ELSE c

\* String.prototype.toLowerCase.
toLowerCase(s) == [i \in 1..Len(s) |-> LowerUnit(s[i])]

\* Three-way lexicographic comparison of two sequences of weights, from
\* index i.
RECURSIVE LexFrom(_, _, _)
LexFrom(a, b, i) ==
  IF i > Len(a) /\ i > Len(b) THEN 0
  ELSE IF i > Len(a) THEN -1
  ELSE IF i > Len(b) THEN 1
  ELSE IF a[i] < b[i] THEN -1
  ELSE IF a[i] > b[i] THEN 1
  ELSE LexFrom(a, b, i + 1)

\* The order of `a < b` on strings and of Array.prototype.sort() without a
\* comparator: by UTF-16 code units.
CodeUnitCompare(a, b) == LexFrom(a, b, 1)
StrLess(a, b) == CodeUnitCompare(a, b) < 0

\* Primary collation weight of a code unit in the root collation used by
\* String.prototype.localeCompare: white space, then punctuation and symbols
\* ("/" before "|"), come before letters; letters compare without regard to
\* case.
PrimaryWeight(c) ==
  IF c = SPACE THEN 0
  ELSE IF c = SLASH THEN 1
  ELSE IF c = BAR_UNIT THEN 2
  ELSE 10 + LowerUnit(c)

\* Tertiary (case) weight: lower case before upper case.
TertiaryWeight(c) == IF IsUpper(c) THEN 1 ELSE 0

\* String.prototype.localeCompare: primary weights decide, case breaks ties.
localeCompare(a, b) ==
  LET p == LexFrom([i \in 1..Len(a) |-> PrimaryWeight(a[i])],
                   [i \in 1..Len(b) |-> PrimaryWeight(b[i])], 1)
  IN IF p # 0 THEN p
     ELSE LexFrom([i \in 1..Len(a) |-> TertiaryWeight(a[i])],
                  [i \in 1..Len(b) |-> TertiaryWeight(b[i])], 1)

\* Array.prototype.join; the separator is a string.
RECURSIVE join(_, _)
join(parts, sep) ==
  IF parts = <<>> THEN <<>>
  ELSE IF Len(parts) = 1 THEN parts[1]
  ELSE parts[1] \o sep \o join(Tail(parts), sep)

\* String.prototype.split with a one-unit separator.
RECURSIVE split(_, _)
split(s, sep) ==
  IF \A i \in 1..Len(s) : s[i] # sep THEN <<s>>
  ELSE LET i == CHOOSE k \in 1..Len(s) :
                  s[k] = sep /\ \A m \in 1..(k - 1) : s[m] # sep
       IN <<SubSeq(s, 1, i - 1)>> \o split(SubSeq(s, i + 1, Len(s)), sep)

----------------------------------------------------------------------------
(* Program constants *)

TILE_SIZE == 40
TILE_GAP == 4
RING_GAP == 4
CIRCLE_PADDING == 40
MAX_GENRES_PER_TRACK == 2
MIN_COMBO_TRACKS == 5

\* The two reserved cluster keys.
OTHER_KEY == <<111, 116, 104, 101, 114>>   \* "other"
\* "uncategorized"
UNCATEGORIZED_KEY == <<117, 110, 99, 97, 116, 101, 103, 111, 114, 105, 122, 101, 100>>

----------------------------------------------------------------------------
(* Tracks.  Track.nts_genres is string[] | null: isNull tells the two apart. *)

NullGenres == [isNull |-> TRUE, labels |-> <<>>]
Genres(ls) == [isNull |-> FALSE, labels |-> ls]
Track(i, g) == [id |-> i, nts_genres |-> g]

----------------------------------------------------------------------------
(* buildGenreFrequency *)

\* freq.get(key) ?? 0
FreqGet(freq, key) == IF key \in DOMAIN freq THEN freq[key] ELSE 0

\* Mutant of FreqSet: a key already present keeps its value.
FreqSet_KeepFirst(freq, key, value) == freq @@ (key :> value)

\* freq.set(key, value)
FreqSet(freq, key, value) == (key :> value) @@ freq

\* The inner loop: one increment per label occurrence of one track.
RECURSIVE CountLabels(_, _)
CountLabels(freq, labels) ==
  IF labels = <<>> THEN freq
  ELSE LET key == toLowerCase(Head(labels))
       IN IF key \in DOMAIN freq   \* freq.get(key) is defined
          THEN CountLabels(FreqSet(freq, key, freq[key] + 1), Tail(labels))
          ELSE CountLabels(FreqSet(freq, key, 0 + 1), Tail(labels))   \* ?? 0

RECURSIVE CountTracks(_, _)
CountTracks(freq, ts) ==
  IF ts = <<>> THEN freq
  ELSE IF Head(ts).nts_genres.isNull THEN CountTracks(freq, Tail(ts))
  ELSE CountTracks(CountLabels(freq, Head(ts).nts_genres.labels), Tail(ts))

\* Mutant of buildGenreFrequency: the table is still empty when it is handed
\* to the first pass.
buildGenreFrequency_NotYet(ts) == <<>>

buildGenreFrequency(ts) == CountTracks(<<>>, ts)

----------------------------------------------------------------------------
(* pickTopGenres *)

\* Stable insertion into a list sorted by code units: Array.prototype.sort()
\* without a comparator.
RECURSIVE InsertDefault(_, _)
InsertDefault(sorted, x) ==
  IF sorted = <<>> THEN <<x>>
  ELSE IF CodeUnitCompare(Head(sorted), x) <= 0
       THEN <<Head(sorted)>> \o InsertDefault(Tail(sorted), x)
       ELSE <<x>> \o sorted

RECURSIVE sortDefault(_)
sortDefault(s) ==
  IF s = <<>> THEN <<>>
  ELSE InsertDefault(sortDefault(SubSeq(s, 1, Len(s) - 1)), s[Len(s)])

\* Mutant of FreqComparator: frequency ascending.
FreqComparator_Ascending(freq, a, b) ==
  LET diff == FreqGet(freq, a) - FreqGet(freq, b)
  IN IF diff # 0 THEN diff ELSE localeCompare(a, b)

\* The comparator of pickTopGenres: frequency descending, then localeCompare.
FreqComparator(freq, a, b) ==
  LET diff == FreqGet(freq, b) - FreqGet(freq, a)
  IN IF diff # 0 THEN diff ELSE localeCompare(a, b)

RECURSIVE InsertByFreq(_, _, _)
InsertByFreq(freq, sorted, x) ==
  IF sorted = <<>> THEN <<x>>
  ELSE IF FreqComparator(freq, Head(sorted), x) <= 0
       THEN <<Head(sorted)>> \o InsertByFreq(freq, Tail(sorted), x)
       ELSE <<x>> \o sorted

RECURSIVE sortByFreq(_, _)
sortByFreq(freq, s) ==
  IF s = <<>> THEN <<>>
  ELSE InsertByFreq(freq, sortByFreq(freq, SubSeq(s, 1, Len(s) - 1)), s[Len(s)])

\* Array.prototype.slice(0, end): a negative end counts from the end.
slice0(s, end) ==
  LET e == IF end >= 0 THEN (IF end < Len(s) THEN end ELSE Len(s))
           ELSE (IF Len(s) + end > 0 THEN Len(s) + end ELSE 0)
  IN SubSeq(s, 1, e)

\* Mutant of pickTopGenres: a short label list is returned unsorted.
pickTopGenres_Unsorted(genres, freq, maxGenres) ==
  IF genres.isNull \/ Len(genres.labels) = 0 THEN <<>>
  ELSE LET normalized == [i \in 1..Len(genres.labels) |->
                            toLowerCase(genres.labels[i])]
       IN IF Len(normalized) <= maxGenres THEN normalized
          ELSE sortDefault(slice0(sortByFreq(freq, normalized), maxGenres))

pickTopGenres(genres, freq, maxGenres) ==
  IF genres.isNull \/ Len(genres.labels) = 0 THEN <<>>
  ELSE LET normalized == [i \in 1..Len(genres.labels) |->
                            toLowerCase(genres.labels[i])]
       IN IF Len(normalized) <= maxGenres THEN sortDefault(normalized)
          ELSE sortDefault(slice0(sortByFreq(freq, normalized), maxGenres))

\* The arrays pickTopGenres works on, as a heap: a cell per array, named by
\* the variable bound to it.  "arg" is the array the caller passed as genres.

\* Mutant of MapResult: map writes into its receiver and returns it.
MapResult_Receiver == "arg"

\* genres.map(...) returns a new array, bound to normalized.
MapResult == "normalized"

\* The array the caller passed as genres, as it is when pickTopGenres returns.
\* normalized.sort() sorts the array normalized is bound to in place; the
\* spread [...normalized] and slice return new arrays, so the sorts of the
\* long path touch neither cell.
GenresAfterPick(genres, freq, maxGenres) ==
  IF genres.isNull \/ Len(genres.labels) = 0 THEN genres
  ELSE LET normalized == MapResult
           mapped == (normalized :> [i \in 1..Len(genres.labels) |->
                                       toLowerCase(genres.labels[i])])
                       @@ [arg |-> genres.labels]
           heap == IF Len(mapped[normalized]) <= maxGenres
                   THEN [mapped EXCEPT ![normalized] = sortDefault(@)]
                   ELSE mapped
       IN Genres(heap.arg)

----------------------------------------------------------------------------
(* groupTracksByTopGenres.  A Map is a sequence of entries in insertion    *)
(* order; set() on a key already present replaces the value in place.      *)

MapHas(m, key) == \E i \in 1..Len(m) : m[i].key = key
MapIndex(m, key) == CHOOSE i \in 1..Len(m) : m[i].key = key
MapGet(m, key) == m[MapIndex(m, key)]
MapSet(m, entry) ==
  IF MapHas(m, entry.key)
  THEN [m EXCEPT ![MapIndex(m, entry.key)] = entry]
  ELSE Append(m, entry)

\* Mutant of ComboKey: no fallback for the empty combo.
ComboKey_NoFallback(topGenres) == join(topGenres, <<SLASH>>)

\* Mutant of ComboKey: the labels are joined by " / ", as in the display label.
ComboKey_Spaced(topGenres) ==
  IF Len(topGenres) > 0 THEN join(topGenres, <<SPACE, SLASH, SPACE>>)
  ELSE UNCATEGORIZED_KEY

\* The combo key of a track: its top genres joined by "/", or "uncategorized".
ComboKey(topGenres) ==
  IF Len(topGenres) > 0 THEN join(topGenres, <<SLASH>>) ELSE UNCATEGORIZED_KEY

\* First pass: group by top-2 combo key.
RECURSIVE FirstPass(_, _, _)
FirstPass(rawGroups, ts, freq) ==
  IF ts = <<>> THEN rawGroups
  ELSE LET track == Head(ts)
           topGenres == pickTopGenres(track.nts_genres, freq, MAX_GENRES_PER_TRACK)
           key == ComboKey(topGenres)
           created == IF MapHas(rawGroups, key) THEN rawGroups
                      ELSE MapSet(rawGroups,
                             [key |-> key, tracks |-> <<>>, genres |-> topGenres])
           i == MapIndex(created, key)
       IN FirstPass([created EXCEPT ![i].tracks = Append(@, track)], Tail(ts), freq)

\* The input tracks after the first pass: pickTopGenres has been called on the
\* label list of each.
TracksAfterFirstPass(ts, freq) ==
  [i \in 1..Len(ts) |->
     [ts[i] EXCEPT !.nts_genres = GenresAfterPick(@, freq, MAX_GENRES_PER_TRACK)]]

\* Mutant of KeepGroup: the threshold is off by one.
KeepGroup_OffByOne(group, minTracks) == Len(group.tracks) >= minTracks - 1

\* Whether a raw group is kept under its own key.
KeepGroup(group, minTracks) == Len(group.tracks) >= minTracks

\* Second pass: fold small combos into "other".  The group object stored
\* under a key is the raw group itself; a raw group is not read again after
\* its turn, so the sharing is not observable and entries are values here.
RECURSIVE SecondPass(_, _, _)
SecondPass(result, rawGroups, minTracks) ==
  IF rawGroups = <<>> THEN result
  ELSE LET group == Head(rawGroups)
       IN IF KeepGroup(group, minTracks)
          THEN SecondPass(MapSet(result, group), Tail(rawGroups), minTracks)
          ELSE LET withOther ==
                     IF MapHas(result, OTHER_KEY) THEN result
                     ELSE MapSet(result,
                            [key |-> OTHER_KEY, tracks |-> <<>>, genres |-> <<>>])
                   i == MapIndex(withOther, OTHER_KEY)
               IN SecondPass([withOther EXCEPT ![i].tracks = @ \o group.tracks],
                             Tail(rawGroups), minTracks)

groupTracksByTopGenres(ts, minTracks) ==
  SecondPass(<<>>, FirstPass(<<>>, ts, buildGenreFrequency(ts)), minTracks)

----------------------------------------------------------------------------
(* calculateCircularTilePositions.  The x and y offsets are cosines and    *)
(* sines of the angle and are left out; ring and angleIndex determine them. *)

\* Math.PI as a fraction; 355/113 gives the same floor as Math.PI for every
\* ring below 100.
PI_NUM == 355
PI_DEN == 113

cellSize == TILE_SIZE + TILE_GAP

\* Mutant of RingRadius: the rings are one cell apart, without the ring gap.
RingRadius_NoRingGap(ring) == ring * cellSize

RingRadius(ring) == ring * (cellSize + RING_GAP)

\* Math.max(6, Math.floor(2 * Math.PI * ringRadius / cellSize))
RingCapacity(ring) ==
  LET byCircumference == (2 * PI_NUM * RingRadius(ring)) \div (PI_DEN * cellSize)
  IN IF byCircumference > 6 THEN byCircumference ELSE 6

\* Mutant of RingTiles: the angle index keeps counting from ring to ring.
RingTiles_RunningIndex(ts, comboKey, placed, ring, toPlace) ==
  [i \in 1..toPlace |->
     [trackId |-> ts[placed + i].id, comboKey |-> comboKey,
      ring |-> ring, angleIndex |-> placed + i - 1]]

\* The inner for loop: toPlace tiles on one ring, angle index 0..toPlace-1.
RingTiles(ts, comboKey, placed, ring, toPlace) ==
  [i \in 1..toPlace |->
     [trackId |-> ts[placed + i].id, comboKey |-> comboKey,
      ring |-> ring, angleIndex |-> i - 1]]

\* Mutant of PlaceRings: a ring takes every member left, whatever its capacity.
RECURSIVE PlaceRings_Uncapped(_, _, _, _, _, _)
PlaceRings_Uncapped(ts, comboKey, positions, placed, ring, outerRadius) ==
  IF placed >= Len(ts) THEN [positions |-> positions, radius |-> outerRadius]
  ELSE LET toPlace == Len(ts) - placed
       IN PlaceRings_Uncapped(ts, comboKey,
                              positions \o RingTiles(ts, comboKey, placed, ring, toPlace),
                              placed + toPlace, ring + 1,
                              RingRadius(ring) + TILE_SIZE \div 2)

\* The while loop over rings.
RECURSIVE PlaceRings(_, _, _, _, _, _)
PlaceRings(ts, comboKey, positions, placed, ring, outerRadius) ==
  IF placed >= Len(ts) THEN [positions |-> positions, radius |-> outerRadius]
  ELSE LET capacity == RingCapacity(ring)
           left == Len(ts) - placed
           toPlace == IF capacity < left THEN capacity ELSE left
       IN PlaceRings(ts, comboKey,
                     positions \o RingTiles(ts, comboKey, placed, ring, toPlace),
                     placed + toPlace, ring + 1,
                     RingRadius(ring) + TILE_SIZE \div 2)

\* Mutant of calculateCircularTilePositions: no special case for one tile.
calculateCircularTilePositions_NoSingleCase(ts, comboKey) ==
  IF Len(ts) = 0 THEN [positions |-> <<>>, radius |-> 0]
  ELSE LET center == [trackId |-> ts[1].id, comboKey |-> comboKey,
                      ring |-> 0, angleIndex |-> 0]
       IN PlaceRings(ts, comboKey, <<center>>, 1, 1, 0)

calculateCircularTilePositions(ts, comboKey) ==
  IF Len(ts) = 0 THEN [positions |-> <<>>, radius |-> 0]
  ELSE LET center == [trackId |-> ts[1].id, comboKey |-> comboKey,
                      ring |-> 0, angleIndex |-> 0]
           placedAll == PlaceRings(ts, comboKey, <<center>>, 1, 1, 0)
       IN IF Len(ts) = 1
          THEN [placedAll EXCEPT !.radius = TILE_SIZE \div 2]
          ELSE placedAll

----------------------------------------------------------------------------
(* computeGenreEdges *)

\* genreIndex: genre -> keys of the nodes listing it, one push per listing.
RECURSIVE IndexGenres(_, _, _)
IndexGenres(genreIndex, nodeKey, genres) ==
  IF genres = <<>> THEN genreIndex
  ELSE LET genre == Head(genres)
           created == IF MapHas(genreIndex, genre) THEN genreIndex
                      ELSE MapSet(genreIndex, [key |-> genre, nodeKeys |-> <<>>])
           i == MapIndex(created, genre)
       IN IndexGenres([created EXCEPT ![i].nodeKeys = Append(@, nodeKey)],
                      nodeKey, Tail(genres))

RECURSIVE BuildGenreIndex(_, _)
BuildGenreIndex(genreIndex, ns) ==
  IF ns = <<>> THEN genreIndex
  ELSE BuildGenreIndex(IndexGenres(genreIndex, Head(ns).key, Head(ns).genres),
                       Tail(ns))

\* a < b ? `${a}|${b}` : `${b}|${a}`
EdgeKey(a, b) == IF StrLess(a, b) THEN a \o <<BAR_UNIT>> \o b ELSE b \o <<BAR_UNIT>> \o a

\* Set.prototype.add on a set kept in insertion order.
SetAdd(set, x) == IF \E i \in 1..Len(set) : set[i] = x THEN set ELSE Append(set, x)

\* The double loop over one genre's node keys: every i < j, in loop order.
RECURSIVE AddPairs(_, _, _, _, _)
AddPairs(edgeMap, genre, nodeKeys, i, j) ==
  IF i > Len(nodeKeys) THEN edgeMap
  ELSE IF j > Len(nodeKeys) THEN AddPairs(edgeMap, genre, nodeKeys, i + 1, i + 2)
  ELSE LET edgeKey == EdgeKey(nodeKeys[i], nodeKeys[j])
           created == IF MapHas(edgeMap, edgeKey) THEN edgeMap
                      ELSE MapSet(edgeMap, [key |-> edgeKey, shared |-> <<>>])
           k == MapIndex(created, edgeKey)
       IN AddPairs([created EXCEPT ![k].shared = SetAdd(@, genre)],
                   genre, nodeKeys, i, j + 1)

RECURSIVE BuildEdgeMap(_, _)
BuildEdgeMap(edgeMap, genreIndex) ==
  IF genreIndex = <<>> THEN edgeMap
  ELSE LET entry == Head(genreIndex)
       IN BuildEdgeMap(AddPairs(edgeMap, entry.key, entry.nodeKeys, 1, 2),
                       Tail(genreIndex))

\* const [sourceKey, targetKey] = edgeKey.split("|")
EdgeOf(entry) ==
  LET parts == split(entry.key, BAR_UNIT)
  IN [sourceKey |-> parts[1], targetKey |-> parts[2],
      sharedGenres |-> entry.shared]

computeGenreEdges(ns) ==
  LET edgeMap == BuildEdgeMap(<<>>, BuildGenreIndex(<<>>, ns))
  IN [i \in 1..Len(edgeMap) |-> EdgeOf(edgeMap[i])]

----------------------------------------------------------------------------
(* packCircles *)

\* (node.radius + pad) * 2, squared and summed over the nodes.
RECURSIVE TotalArea(_)
TotalArea(ns) ==
  IF ns = <<>> THEN 0
  ELSE LET d == (Head(ns).radius + CIRCLE_PADDING) * 2
       IN d * d + TotalArea(Tail(ns))

\* cursorX + diameter > Math.sqrt(totalArea * 1.6), both sides non-negative:
\* compared as squares, 1.6 = 8/5.
ExceedsTargetWidth(extent, totalArea) == 5 * extent * extent > 8 * totalArea

\* Mutant of NextCursor: a new row starts right below the row's tallest
\* circle, without the padding between rows.
NextCursor_NoRowPadding(cursor, diameter, totalArea) ==
  IF ExceedsTargetWidth(cursor.x + diameter, totalArea) /\ cursor.x > CIRCLE_PADDING
  THEN [x |-> CIRCLE_PADDING,
        y |-> cursor.y + cursor.rowHeight,
        rowHeight |-> 0]
  ELSE cursor

\* Where the cursor moves when a circle does not fit in the current row.
NextCursor(cursor, diameter, totalArea) ==
  IF ExceedsTargetWidth(cursor.x + diameter, totalArea) /\ cursor.x > CIRCLE_PADDING
  THEN [x |-> CIRCLE_PADDING,
        y |-> cursor.y + cursor.rowHeight + CIRCLE_PADDING,
        rowHeight |-> 0]
  ELSE cursor

\* Mutant of Advance: the cursor moves by the diameter without the padding.
Advance_NoPadding(cursor, diameter) ==
  [x |-> cursor.x + diameter,
   y |-> cursor.y,
   rowHeight |-> IF cursor.rowHeight > diameter THEN cursor.rowHeight ELSE diameter]

\* The cursor after a circle is placed.
Advance(cursor, diameter) ==
  [x |-> cursor.x + diameter + CIRCLE_PADDING,
   y |-> cursor.y,
   rowHeight |-> IF cursor.rowHeight > diameter THEN cursor.rowHeight ELSE diameter]

\* The placement loop: rows left to right.
RECURSIVE PlaceCircles(_, _, _, _)
PlaceCircles(placed, ns, cursor, totalArea) ==
  IF ns = <<>> THEN placed
  ELSE LET node == Head(ns)
           diameter == node.radius * 2 + CIRCLE_PADDING
           at == NextCursor(cursor, diameter, totalArea)
       IN PlaceCircles(
            Append(placed, [node EXCEPT !.cx = at.x + node.radius,
                                        !.cy = at.y + node.radius]),
            Tail(ns), Advance(at, diameter), totalArea)

\* packCircles writes cx and cy into the nodes it is given; here it returns
\* the nodes with cx and cy set.
packCircles(ns) ==
  IF Len(ns) = 0 THEN ns
  ELSE PlaceCircles(<<>>, ns,
                    [x |-> CIRCLE_PADDING, y |-> CIRCLE_PADDING, rowHeight |-> 0],
                    TotalArea(ns))

----------------------------------------------------------------------------
(* calculateCircleGraphLayout *)

\* One node per combo group, with its circular tile positions.
NodeOf(group) ==
  LET tiles == calculateCircularTilePositions(group.tracks, group.key)
  IN [key |-> group.key,
      genres |-> group.genres,
      displayLabel |-> IF group.key = OTHER_KEY \/ group.key = UNCATEGORIZED_KEY
                       THEN group.key
                       ELSE join(group.genres, <<SPACE, SLASH, SPACE>>),
      tracks |-> group.tracks,
      tilePositions |-> tiles.positions,
      radius |-> tiles.radius,
      cx |-> 0,
      cy |-> 0]

CreateNodes(comboGroups) == [i \in 1..Len(comboGroups) |-> NodeOf(comboGroups[i])]

\* nodes.sort((a, b) => b.tracks.length - a.tracks.length), a stable sort.
SizeComparator(a, b) == Len(b.tracks) - Len(a.tracks)

RECURSIVE InsertBySize(_, _)
InsertBySize(sorted, x) ==
  IF sorted = <<>> THEN <<x>>
  ELSE IF SizeComparator(Head(sorted), x) <= 0
       THEN <<Head(sorted)>> \o InsertBySize(Tail(sorted), x)
       ELSE <<x>> \o sorted

RECURSIVE sortBySize(_)
sortBySize(ns) ==
  IF ns = <<>> THEN <<>>
  ELSE InsertBySize(sortBySize(SubSeq(ns, 1, Len(ns) - 1)), ns[Len(ns)])

Max(a, b) == IF a > b THEN a ELSE b

\* Mutant of MaxExtent: the extent of a node is taken without the padding.
RECURSIVE MaxExtent_NoPadding(_, _, _)
MaxExtent_NoPadding(ns, maxX, maxY) ==
  IF ns = <<>> THEN [maxX |-> maxX, maxY |-> maxY]
  ELSE MaxExtent_NoPadding(Tail(ns),
                           Max(maxX, Head(ns).cx + Head(ns).radius),
                           Max(maxY, Head(ns).cy + Head(ns).radius))

\* maxX and maxY over the packed nodes.
RECURSIVE MaxExtent(_, _, _)
MaxExtent(ns, maxX, maxY) ==
  IF ns = <<>> THEN [maxX |-> maxX, maxY |-> maxY]
  ELSE MaxExtent(Tail(ns),
                 Max(maxX, Head(ns).cx + Head(ns).radius + CIRCLE_PADDING),
                 Max(maxY, Head(ns).cy + Head(ns).radius + CIRCLE_PADDING))

----------------------------------------------------------------------------
(* The similarity-ordered grid of lib/genreLayout.ts.  Its buildGenreFrequency *)
(* is the same code as the one above.                                       *)

MIN_GROUP_SIZE == 5

\* buildGenreFrequency of lib/genreLayout.ts.
GridGenreFrequency(ts) == CountTracks(<<>>, ts)

\* The loop of assignPrimaryGenre: highest count, ties to the smaller key.
RECURSIVE BestLabel(_, _, _, _)
BestLabel(labels, table, best, bestCount) ==
  IF labels = <<>> THEN best
  ELSE LET key == toLowerCase(Head(labels))
           count == FreqGet(table, key)
       IN IF count > bestCount \/ (count = bestCount /\ StrLess(key, best))
          THEN BestLabel(Tail(labels), table, key, count)
          ELSE BestLabel(Tail(labels), table, best, bestCount)

assignPrimaryGenre(track, table) ==
  IF track.nts_genres.isNull \/ Len(track.nts_genres.labels) = 0
  THEN UNCATEGORIZED_KEY
  ELSE IF Len(track.nts_genres.labels) = 1
  THEN toLowerCase(track.nts_genres.labels[1])
  ELSE LET best == BestLabel(track.nts_genres.labels, table, <<>>, -1)
       IN IF best # <<>> THEN best ELSE UNCATEGORIZED_KEY   \* best || 'uncategorized'

\* The first loop of groupByPrimaryGenre: group by primary genre.
RECURSIVE PrimaryPass(_, _, _)
PrimaryPass(groups, ts, table) ==
  IF ts = <<>> THEN groups
  ELSE LET genre == assignPrimaryGenre(Head(ts), table)
           created == IF MapHas(groups, genre) THEN groups
                      ELSE MapSet(groups, [key |-> genre, tracks |-> <<>>])
           i == MapIndex(created, genre)
       IN PrimaryPass([created EXCEPT ![i].tracks = Append(@, Head(ts))],
                      Tail(ts), table)

\* The second loop of groupByPrimaryGenre: merge small groups into "other".
\* A group is not read again after its turn, so entries are values here.
RECURSIVE MergeSmall(_, _, _)
MergeSmall(result, groups, minGroupSize) ==
  IF groups = <<>> THEN result
  ELSE LET group == Head(groups)
       IN IF Len(group.tracks) >= minGroupSize
          THEN MergeSmall(MapSet(result, group), Tail(groups), minGroupSize)
          ELSE LET withOther ==
                     IF MapHas(result, OTHER_KEY) THEN result
                     ELSE MapSet(result, [key |-> OTHER_KEY, tracks |-> <<>>])
                   i == MapIndex(withOther, OTHER_KEY)
               IN MergeSmall([withOther EXCEPT ![i].tracks = @ \o group.tracks],
                             Tail(groups), minGroupSize)

groupByPrimaryGenre(ts, table, minGroupSize) ==
  MergeSmall(<<>>, PrimaryPass(<<>>, ts, table), minGroupSize)

buildTagProfile(ts) == CountTracks(<<>>, ts)

\* The sum of f over the keys in S.
RECURSIVE SumOver(_, _)
SumOver(f, S) ==
  IF S = {} THEN 0
  ELSE LET k == CHOOSE x \in S : TRUE
       IN f[k] + SumOver(f, S \ {k})

\* cosineSimilarity.  The counts are not negative, so the similarity is not
\* either, and it is kept as the exact fraction num/den of its square
\* dot^2 / (magA * magB); denom === 0 gives 0.  On the tag profiles of the
\* inputs below the doubles the code computes compare as these fractions do.
cosineSimilarity(a, b) ==
  LET shared == DOMAIN a \cap DOMAIN b
      dot == SumOver([k \in shared |-> a[k] * b[k]], shared)
      magA == SumOver([k \in DOMAIN a |-> a[k] * a[k]], DOMAIN a)
      magB == SumOver([k \in DOMAIN b |-> b[k] * b[k]], DOMAIN b)
  IN IF magA * magB = 0 THEN [num |-> 0, den |-> 1]
     ELSE [num |-> dot * dot, den |-> magA * magB]

\* sim > bestSim on similarities kept as fractions.
SimGreater(sim, bestSim) == sim.num * bestSim.den > bestSim.num * sim.den

\* let bestSim = -1
NoSim == [num |-> -1, den |-> 1]

\* let bestGroup: GenreGroup | null = null
NoGroup == [isNull |-> TRUE]

\* Whether a group is one of the two reserved ones.
IsSpecial(g) == g.genre = OTHER_KEY \/ g.genre = UNCATEGORIZED_KEY

\* Array.prototype.filter on the groups, by IsSpecial being keep.
RECURSIVE FilterGroups(_, _)
FilterGroups(groups, keep) ==
  IF groups = <<>> THEN <<>>
  ELSE IF IsSpecial(Head(groups)) = keep
       THEN <<Head(groups)>> \o FilterGroups(Tail(groups), keep)
       ELSE FilterGroups(Tail(groups), keep)

\* normal.sort((a, b) => b.tracks.length - a.tracks.length), a stable sort.
sortNormal(groups) == sortBySize(groups)

\* Mutant of BestCandidate: the first unvisited candidate is taken, whatever
\* its similarity.
RECURSIVE BestCandidate_FirstUnvisited(_, _, _, _, _)
BestCandidate_FirstUnvisited(candidates, seen, current, bestSim, bestGroup) ==
  IF candidates = <<>> THEN bestGroup
  ELSE LET candidate == Head(candidates)
       IN IF candidate.genre \in seen
          THEN BestCandidate_FirstUnvisited(Tail(candidates), seen, current,
                                            bestSim, bestGroup)
          ELSE LET sim == cosineSimilarity(current.tagProfile, candidate.tagProfile)
               IN IF bestGroup.isNull
                  THEN BestCandidate_FirstUnvisited(Tail(candidates), seen, current, sim,
                                                    [isNull |-> FALSE, group |-> candidate])
                  ELSE BestCandidate_FirstUnvisited(Tail(candidates), seen, current,
                                                    bestSim, bestGroup)

\* The for loop of one pass: the first unvisited candidate of highest
\* similarity to current.
RECURSIVE BestCandidate(_, _, _, _, _)
BestCandidate(candidates, seen, current, bestSim, bestGroup) ==
  IF candidates = <<>> THEN bestGroup
  ELSE LET candidate == Head(candidates)
       IN IF candidate.genre \in seen
          THEN BestCandidate(Tail(candidates), seen, current, bestSim, bestGroup)
          ELSE LET sim == cosineSimilarity(current.tagProfile, candidate.tagProfile)
               IN IF SimGreater(sim, bestSim)
                  THEN BestCandidate(Tail(candidates), seen, current, sim,
                                     [isNull |-> FALSE, group |-> candidate])
                  ELSE BestCandidate(Tail(candidates), seen, current, bestSim, bestGroup)

\* One GenreGroup per entry of the group map, with its tag profile.
GenreGroupOf(entry) ==
  [genre |-> entry.key, displayLabel |-> entry.key, tracks |-> entry.tracks,
   tagProfile |-> buildTagProfile(entry.tracks)]

\* The loop that builds flatTracks and groupBoundaries.
RECURSIVE Flatten(_, _, _)
Flatten(groups, flat, boundaries) ==
  IF groups = <<>> THEN [flatTracks |-> flat, groupBoundaries |-> boundaries]
  ELSE Flatten(Tail(groups), flat \o Head(groups).tracks, Append(boundaries, Len(flat)))

----------------------------------------------------------------------------
(* Bounds and input pools *)

MaxRuns == 3        \* runs of equally labelled tracks in a layout input
MaxTracks == 4      \* tracks handed to the cluster builder on its own
MaxMinTracks == 2   \* largest threshold handed to the cluster builder on its own
MaxLabels == 3      \* labels of the track handed to pickTopGenres
MaxFreq == 1        \* largest count in the frequency table handed to pickTopGenres
MaxNodes == 4       \* nodes handed to packCircles
MaxRing == 3        \* outermost ring of a node handed to packCircles
MaxFreqTracks == 3  \* tracks handed to buildGenreFrequency on its own
MaxMembers == 50    \* members of the cluster handed to the ring packer on its own
MaxRepeatRuns == 2  \* runs of equally labelled tracks in a layout input computed twice
MaxGroups == 3      \* groups handed to orderGenresBySimilarity on its own
MaxPasses == 4      \* passes of the while loop of orderGenresBySimilarity followed
MaxGridRuns == 3    \* runs of equally labelled tracks in a grid input

JAZZ == <<106, 97, 122, 122>>         \* "jazz"
JAZZ_CAP == <<74, 97, 122, 122>>      \* "Jazz"
FUNK == <<102, 117, 110, 107>>        \* "funk"
SOUL == <<115, 111, 117, 108>>        \* "soul"
OTHER_CAP == <<79, 116, 104, 101, 114>> \* "Other"
BAR == <<120, BAR_UNIT, 121>>         \* "x|y"

\* The label lists of the tracks of a layout input.
GenreChoices ==
  { NullGenres, Genres(<<>>), Genres(<<JAZZ>>), Genres(<<OTHER_CAP>>),
    Genres(<<UNCATEGORIZED_KEY>>), Genres(<<JAZZ_CAP, JAZZ>>),
    Genres(<<FUNK, SOUL>>), Genres(<<SOUL, JAZZ>>), Genres(<<FUNK, SOUL, JAZZ>>),
    Genres(<<BAR>>), Genres(<<BAR, JAZZ>>), Genres(<<BAR, FUNK>>) }

\* A layout input is a sequence of runs: count tracks with the same labels.
RunLengths == {1, MIN_COMBO_TRACKS}
Runs == [genres : GenreChoices, count : RunLengths]
RECURSIVE ExpandRuns(_, _)
ExpandRuns(ts, runs) ==
  IF runs = <<>> THEN ts
  ELSE ExpandRuns(ts \o [i \in 1..Head(runs).count |->
                           Track(Len(ts) + i, Head(runs).genres)],
                  Tail(runs))

\* The label lists of the tracks of a layout input computed twice.
RepeatChoices ==
  { NullGenres, Genres(<<JAZZ>>), Genres(<<JAZZ_CAP, JAZZ>>),
    Genres(<<FUNK, SOUL>>), Genres(<<SOUL, JAZZ>>), Genres(<<FUNK, SOUL, JAZZ>>) }
RepeatRuns == [genres : RepeatChoices, count : RunLengths]

\* The clusters handed to the ring packer on its own: n members under a key.
Members(n) == [i \in 1..n |-> Track(i, NullGenres)]
RingInputs ==
  {[key |-> k, tracks |-> Members(n), genres |-> <<>>] :
     k \in {OTHER_KEY, UNCATEGORIZED_KEY}, n \in 1..MaxMembers}

\* The label lists of the tracks handed to buildGenreFrequency on its own.
FreqChoices ==
  { NullGenres, Genres(<<>>), Genres(<<JAZZ>>), Genres(<<FUNK>>),
    Genres(<<JAZZ_CAP, JAZZ>>), Genres(<<JAZZ, FUNK, JAZZ>>) }

FreqInputs ==
  UNION {{[i \in 1..n |-> Track(i, g[i])] : g \in [1..n -> FreqChoices]} :
         n \in 0..MaxFreqTracks}

\* The label lists of the tracks handed to the cluster builder on its own.
GroupChoices ==
  { NullGenres, Genres(<<JAZZ>>), Genres(<<OTHER_CAP>>),
    Genres(<<UNCATEGORIZED_KEY>>), Genres(<<FUNK, JAZZ_CAP>>) }

GroupInputs ==
  UNION {{[i \in 1..n |-> Track(i, g[i])] : g \in [1..n -> GroupChoices]} :
         n \in 0..MaxTracks}

\* The inputs of pickTopGenres on its own.
PickLabels == {JAZZ, JAZZ_CAP, FUNK, SOUL}
PickLists == UNION {[1..n -> PickLabels] : n \in 0..MaxLabels}
PickFreqs ==
  LET keys == {toLowerCase(l) : l \in PickLabels}
  IN {[k \in {x \in keys : f[x] > 0} |-> f[k]] : f \in [keys -> 0..MaxFreq]}

\* Values of maxGenres outside the precondition maxGenres >= 1.
InvalidMaxGenres == {-1, 0}

\* The inputs of packCircles on its own: the radii the ring packer gives.
RadiusChoices ==
  {TILE_SIZE \div 2} \cup {RingRadius(r) + TILE_SIZE \div 2 : r \in 1..MaxRing}
PackInputs ==
  UNION {{[i \in 1..n |-> [key |-> <<96 + i>>, radius |-> r[i],
                           cx |-> 0, cy |-> 0]] :
          r \in [1..n -> RadiusChoices]} : n \in 0..MaxNodes}

\* A group handed to orderGenresBySimilarity: a key and tracks with the given
\* label lists, ids from firstId + 1, and the tag profile of the tracks.
GroupOf(genre, firstId, labelLists) ==
  GenreGroupOf([key |-> genre,
                tracks |-> [i \in 1..Len(labelLists) |->
                              Track(firstId + i, labelLists[i])]])

\* The groups handed to orderGenresBySimilarity on its own: two of three
\* tracks, two keyed "funk", a group that shares no label with another, and
\* the two reserved keys.
OrderChoices ==
  { GroupOf(JAZZ, 10, <<Genres(<<JAZZ>>), Genres(<<JAZZ>>), Genres(<<JAZZ, FUNK>>)>>),
    GroupOf(FUNK, 20, <<Genres(<<FUNK>>), Genres(<<FUNK, JAZZ>>)>>),
    GroupOf(SOUL, 30, <<Genres(<<SOUL>>), Genres(<<SOUL>>)>>),
    GroupOf(FUNK, 40, <<Genres(<<FUNK>>)>>),
    GroupOf(BAR, 50, <<Genres(<<BAR, SOUL>>), Genres(<<BAR, SOUL>>), Genres(<<BAR, SOUL>>)>>),
    GroupOf(OTHER_KEY, 60, <<Genres(<<JAZZ>>)>>),
    GroupOf(UNCATEGORIZED_KEY, 70, <<NullGenres>>) }

OrderInputs == UNION {[1..n -> OrderChoices] : n \in 0..MaxGroups}

\* The label lists of the tracks of a grid input, and its runs.
GridChoices ==
  { NullGenres, Genres(<<JAZZ>>), Genres(<<OTHER_CAP>>), Genres(<<SOUL>>),
    Genres(<<FUNK, JAZZ_CAP>>), Genres(<<FUNK, SOUL>>) }
GridRunLengths == {1, MIN_GROUP_SIZE}
GridRuns == [genres : GridChoices, count : GridRunLengths]

----------------------------------------------------------------------------
(* State *)

VARIABLES
  pc,           \* the step the computation is at
  tracks,       \* the input of calculateCircleGraphLayout / groupTracksByTopGenres
  minTracks,    \* the threshold handed to groupTracksByTopGenres
  freq,         \* groupTracksByTopGenres: the frequency table
  rawGroups,    \* groupTracksByTopGenres: the groups of the first pass
  comboGroups,  \* the result of groupTracksByTopGenres
  nodes,        \* calculateCircleGraphLayout: the nodes
  edges,        \* calculateCircleGraphLayout: the edges
  nodeMap,      \* the layout's key -> node lookup (index into nodes)
  totalWidth,   \* the layout's bounding width
  totalHeight,  \* the layout's bounding height
  pickIn,       \* pickTopGenres on its own: genres, freq, maxGenres
  pickOut,      \* pickTopGenres on its own: the combo returned
  packIn,       \* packCircles on its own: the nodes handed in
  packOut,      \* packCircles on its own: the nodes after packing
  returned,     \* the layouts returned by earlier calls of calculateCircleGraphLayout
  groupMap,     \* computeGridLayout: the result of groupByPrimaryGenre
  genreGroups,  \* the groups handed to orderGenresBySimilarity
  special,      \* orderGenresBySimilarity: the reserved groups
  normal,       \* orderGenresBySimilarity: the other groups, sorted by size
  ordered,      \* orderGenresBySimilarity: the groups placed so far
  visited,      \* orderGenresBySimilarity: the genre keys placed so far
  passes,       \* orderGenresBySimilarity: passes of the while loop so far
  orderedGroups, \* the result of orderGenresBySimilarity
  flatTracks,   \* computeGridLayout: the flat track list
  groupBoundaries \* computeGridLayout: the start of each group in flatTracks

layoutVars == <<tracks, minTracks, freq, rawGroups, comboGroups, nodes, edges,
                nodeMap, totalWidth, totalHeight>>
pickVars == <<pickIn, pickOut>>
packVars == <<packIn, packOut>>
orderVars == <<genreGroups, special, normal, ordered, visited, passes, orderedGroups>>
gridVars == <<groupMap, orderVars, flatTracks, groupBoundaries>>
vars == <<pc, layoutVars, pickVars, packVars, returned, gridVars>>

NoPick == [genres |-> NullGenres, freq |-> <<>>, maxGenres |-> 0]

LayoutIdle ==
  /\ tracks = <<>> /\ minTracks = MIN_COMBO_TRACKS
  /\ freq = <<>> /\ rawGroups = <<>> /\ comboGroups = <<>>
  /\ nodes = <<>> /\ edges = <<>> /\ nodeMap = <<>>
  /\ totalWidth = 0 /\ totalHeight = 0
PickIdle == pickIn = NoPick /\ pickOut = <<>>
FirstCall == returned = <<>>
PackIdle == packIn = <<>> /\ packOut = <<>>
OrderIdle ==
  /\ special = <<>> /\ normal = <<>> /\ ordered = <<>> /\ visited = {}
  /\ passes = 0 /\ orderedGroups = <<>>
GridIdle ==
  /\ groupMap = <<>> /\ genreGroups = <<>> /\ OrderIdle
  /\ flatTracks = <<>> /\ groupBoundaries = <<>>

\* calculateCircleGraphLayout is called with a track list.
Init ==
  /\ pc = "start"
  /\ \E n \in 0..MaxRuns : \E runs \in [1..n -> Runs] :
       tracks = ExpandRuns(<<>>, runs)
  /\ minTracks = MIN_COMBO_TRACKS
  /\ freq = <<>> /\ rawGroups = <<>> /\ comboGroups = <<>>
  /\ nodes = <<>> /\ edges = <<>> /\ nodeMap = <<>>
  /\ totalWidth = 0 /\ totalHeight = 0
  /\ PickIdle /\ PackIdle /\ FirstCall /\ GridIdle

\* calculateCircleGraphLayout is called with a track list, to be called again
\* with the same list.
InitRepeat ==
  /\ pc = "start"
  /\ \E n \in 0..MaxRepeatRuns : \E runs \in [1..n -> RepeatRuns] :
       tracks = ExpandRuns(<<>>, runs)
  /\ minTracks = MIN_COMBO_TRACKS
  /\ freq = <<>> /\ rawGroups = <<>> /\ comboGroups = <<>>
  /\ nodes = <<>> /\ edges = <<>> /\ nodeMap = <<>>
  /\ totalWidth = 0 /\ totalHeight = 0
  /\ PickIdle /\ PackIdle /\ FirstCall /\ GridIdle

\* groupTracksByTopGenres is called with a track list and a threshold.
InitGroup ==
  /\ pc = "start"
  /\ tracks \in GroupInputs
  /\ minTracks \in 1..MaxMinTracks
  /\ freq = <<>> /\ rawGroups = <<>> /\ comboGroups = <<>>
  /\ nodes = <<>> /\ edges = <<>> /\ nodeMap = <<>>
  /\ totalWidth = 0 /\ totalHeight = 0
  /\ PickIdle /\ PackIdle /\ FirstCall /\ GridIdle

\* buildGenreFrequency is called with a track list.
InitFreq ==
  /\ pc = "start"
  /\ tracks \in FreqInputs
  /\ minTracks = MIN_COMBO_TRACKS
  /\ freq = <<>> /\ rawGroups = <<>> /\ comboGroups = <<>>
  /\ nodes = <<>> /\ edges = <<>> /\ nodeMap = <<>>
  /\ totalWidth = 0 /\ totalHeight = 0
  /\ PickIdle /\ PackIdle /\ FirstCall /\ GridIdle

\* The ring packer is called on the members of one cluster.
InitRing ==
  /\ pc = "grouped"
  /\ \E group \in RingInputs : comboGroups = <<group>> /\ tracks = group.tracks
  /\ minTracks = MIN_COMBO_TRACKS
  /\ freq = <<>> /\ rawGroups = <<>>
  /\ nodes = <<>> /\ edges = <<>> /\ nodeMap = <<>>
  /\ totalWidth = 0 /\ totalHeight = 0
  /\ PickIdle /\ PackIdle /\ FirstCall /\ GridIdle

\* pickTopGenres is called with a label list, a frequency table and maxGenres.
InitPick ==
  /\ pc = "pick"
  /\ pickIn \in [genres : {NullGenres} \cup {Genres(l) : l \in PickLists},
                 freq : PickFreqs,
                 maxGenres : 1..MAX_GENRES_PER_TRACK]
  /\ pickOut = <<>>
  /\ LayoutIdle /\ PackIdle /\ FirstCall /\ GridIdle

\* pickTopGenres is called with any maxGenres, valid or not.
InitPickAny ==
  /\ pc = "pick"
  /\ pickIn \in [genres : {NullGenres} \cup {Genres(l) : l \in PickLists},
                 freq : PickFreqs,
                 maxGenres : InvalidMaxGenres \cup 1..MAX_GENRES_PER_TRACK]
  /\ pickOut = <<>>
  /\ LayoutIdle /\ PackIdle /\ FirstCall /\ GridIdle

\* packCircles is called with a list of nodes.
InitPack ==
  /\ pc = "pack"
  /\ packIn \in PackInputs
  /\ packOut = <<>>
  /\ LayoutIdle /\ PickIdle /\ FirstCall /\ GridIdle

\* orderGenresBySimilarity is called with a list of groups.
InitOrder ==
  /\ pc = "order"
  /\ genreGroups \in OrderInputs
  /\ groupMap = <<>> /\ OrderIdle
  /\ flatTracks = <<>> /\ groupBoundaries = <<>>
  /\ LayoutIdle /\ PickIdle /\ PackIdle /\ returned = <<>>

\* computeGridLayout is called with a track list.
InitGrid ==
  /\ pc = "grid"
  /\ \E n \in 0..MaxGridRuns : \E runs \in [1..n -> GridRuns] :
       tracks = ExpandRuns(<<>>, runs)
  /\ minTracks = MIN_COMBO_TRACKS
  /\ freq = <<>> /\ rawGroups = <<>> /\ comboGroups = <<>>
  /\ nodes = <<>> /\ edges = <<>> /\ nodeMap = <<>>
  /\ totalWidth = 0 /\ totalHeight = 0
  /\ PickIdle /\ PackIdle /\ returned = <<>> /\ GridIdle

----------------------------------------------------------------------------
(* Steps of groupTracksByTopGenres *)

BuildFrequency ==
  /\ pc = "start"
  /\ freq' = buildGenreFrequency(tracks)
  /\ pc' = "grouping"
  /\ UNCHANGED <<tracks, minTracks, rawGroups, comboGroups, nodes, edges,
                 nodeMap, totalWidth, totalHeight, pickVars, packVars, returned, gridVars>>

\* Mutant of NewGroups: the map of the previous call is used again.
NewGroups_Shared == rawGroups

\* const rawGroups = new Map()
NewGroups == <<>>

GroupByCombo ==
  /\ pc = "grouping"
  /\ rawGroups' = FirstPass(NewGroups, tracks, freq)
  /\ tracks' = TracksAfterFirstPass(tracks, freq)
  /\ pc' = "folding"
  /\ UNCHANGED <<minTracks, freq, comboGroups, nodes, edges,
                 nodeMap, totalWidth, totalHeight, pickVars, packVars, returned, gridVars>>

FoldSmallCombos ==
  /\ pc = "folding"
  /\ comboGroups' = SecondPass(<<>>, rawGroups, minTracks)
  /\ pc' = "grouped"
  /\ UNCHANGED <<tracks, minTracks, freq, rawGroups, nodes, edges,
                 nodeMap, totalWidth, totalHeight, pickVars, packVars, returned, gridVars>>

(* Steps of calculateCircleGraphLayout after grouping *)

BuildNodes ==
  /\ pc = "grouped"
  /\ nodes' = CreateNodes(comboGroups)
  /\ pc' = "sorting"
  /\ UNCHANGED <<tracks, minTracks, freq, rawGroups, comboGroups, edges,
                 nodeMap, totalWidth, totalHeight, pickVars, packVars, returned, gridVars>>

SortNodes ==
  /\ pc = "sorting"
  /\ nodes' = sortBySize(nodes)
  /\ pc' = "edges"
  /\ UNCHANGED <<tracks, minTracks, freq, rawGroups, comboGroups, edges,
                 nodeMap, totalWidth, totalHeight, pickVars, packVars, returned, gridVars>>

ComputeEdges ==
  /\ pc = "edges"
  /\ edges' = computeGenreEdges(nodes)
  /\ pc' = "packing"
  /\ UNCHANGED <<tracks, minTracks, freq, rawGroups, comboGroups, nodes,
                 nodeMap, totalWidth, totalHeight, pickVars, packVars, returned, gridVars>>

PackNodes ==
  /\ pc = "packing"
  /\ nodes' = packCircles(nodes)
  /\ pc' = "assembling"
  /\ UNCHANGED <<tracks, minTracks, freq, rawGroups, comboGroups, edges,
                 nodeMap, totalWidth, totalHeight, pickVars, packVars, returned, gridVars>>

\* nodeMap.set(node.key, node) for every node, in order.
RECURSIVE BuildNodeMap(_, _, _)
BuildNodeMap(m, ns, i) ==
  IF i > Len(ns) THEN m
  ELSE BuildNodeMap(MapSet(m, [key |-> ns[i].key, node |-> i]), ns, i + 1)

Assemble ==
  /\ pc = "assembling"
  /\ nodeMap' = BuildNodeMap(<<>>, nodes, 1)
  /\ totalWidth' = MaxExtent(nodes, 0, 0).maxX
  /\ totalHeight' = MaxExtent(nodes, 0, 0).maxY
  /\ pc' = "done"
  /\ UNCHANGED <<tracks, minTracks, freq, rawGroups, comboGroups, nodes, edges,
                 pickVars, packVars, returned, gridVars>>

\* The layout calculateCircleGraphLayout returns.
Layout ==
  [nodes |-> nodes, edges |-> edges, nodeMap |-> nodeMap,
   totalWidth |-> totalWidth, totalHeight |-> totalHeight, tileSize |-> TILE_SIZE]

\* calculateCircleGraphLayout has returned and is called again with the same
\* track list; the locals of the first call are dead, each is assigned anew
\* before it is read.
CallAgain ==
  /\ pc = "done"
  /\ returned = <<>>
  /\ returned' = <<Layout>>
  /\ pc' = "start"
  /\ UNCHANGED <<layoutVars, pickVars, packVars, gridVars>>

(* The pure functions on their own *)

PickTop ==
  /\ pc = "pick"
  /\ pickOut' = pickTopGenres(pickIn.genres, pickIn.freq, pickIn.maxGenres)
  /\ pc' = "picked"
  /\ UNCHANGED <<layoutVars, pickIn, packVars, returned, gridVars>>

Pack ==
  /\ pc = "pack"
  /\ packOut' = packCircles(packIn)
  /\ pc' = "packed"
  /\ UNCHANGED <<layoutVars, pickVars, packIn, returned, gridVars>>

(* Steps of orderGenresBySimilarity *)

\* The two filters, the early return, the sort and the first group.
OrderStart ==
  /\ pc = "order"
  /\ special' = FilterGroups(genreGroups, TRUE)
  /\ IF Len(FilterGroups(genreGroups, FALSE)) = 0
     THEN /\ normal' = <<>>
          /\ ordered' = <<>> /\ visited' = {}
          /\ orderedGroups' = special'
          /\ pc' = "ordered"
     ELSE /\ normal' = sortNormal(FilterGroups(genreGroups, FALSE))
          /\ ordered' = <<normal'[1]>>
          /\ visited' = {normal'[1].genre}
          /\ orderedGroups' = <<>>
          /\ pc' = "loop"
  /\ UNCHANGED <<layoutVars, pickVars, packVars, returned, groupMap, genreGroups,
                 passes, flatTracks, groupBoundaries>>

\* One pass of the while loop.
OrderPass ==
  /\ pc = "loop"
  /\ Len(ordered) < Len(normal)
  /\ passes < MaxPasses
  /\ LET bestGroup == BestCandidate(normal, visited, ordered[Len(ordered)],
                                    NoSim, NoGroup)
     IN IF ~bestGroup.isNull
        THEN /\ ordered' = Append(ordered, bestGroup.group)
             /\ visited' = visited \cup {bestGroup.group.genre}
        ELSE UNCHANGED <<ordered, visited>>
  /\ passes' = passes + 1
  /\ UNCHANGED <<pc, layoutVars, pickVars, packVars, returned, groupMap, genreGroups,
                 special, normal, orderedGroups, flatTracks, groupBoundaries>>

\* The while loop is left: return [...ordered, ...special].
OrderReturn ==
  /\ pc = "loop"
  /\ ~(Len(ordered) < Len(normal))
  /\ orderedGroups' = ordered \o special
  /\ pc' = "ordered"
  /\ UNCHANGED <<layoutVars, pickVars, packVars, returned, groupMap, genreGroups,
                 special, normal, ordered, visited, passes, flatTracks,
                 groupBoundaries>>

(* Steps of computeGridLayout *)

GridGroupTracks ==
  /\ pc = "grid"
  /\ freq' = GridGenreFrequency(tracks)
  /\ groupMap' = groupByPrimaryGenre(tracks, freq', MIN_GROUP_SIZE)
  /\ pc' = "profiles"
  /\ UNCHANGED <<tracks, minTracks, rawGroups, comboGroups, nodes, edges, nodeMap,
                 totalWidth, totalHeight, pickVars, packVars, returned, orderVars,
                 flatTracks, groupBoundaries>>

GridBuildGroups ==
  /\ pc = "profiles"
  /\ genreGroups' = [i \in 1..Len(groupMap) |-> GenreGroupOf(groupMap[i])]
  /\ pc' = "order"
  /\ UNCHANGED <<layoutVars, pickVars, packVars, returned, groupMap, special, normal,
                 ordered, visited, passes, orderedGroups, flatTracks, groupBoundaries>>

GridFlatten ==
  /\ pc = "ordered"
  /\ flatTracks' = Flatten(orderedGroups, <<>>, <<>>).flatTracks
  /\ groupBoundaries' = Flatten(orderedGroups, <<>>, <<>>).groupBoundaries
  /\ pc' = "flattened"
  /\ UNCHANGED <<layoutVars, pickVars, packVars, returned, groupMap, orderVars>>

----------------------------------------------------------------------------
(* Specifications *)

NextFreq == BuildFrequency
NextRing == BuildNodes
NextGroup == BuildFrequency \/ GroupByCombo \/ FoldSmallCombos
Next ==
  \/ BuildFrequency \/ GroupByCombo \/ FoldSmallCombos
  \/ BuildNodes \/ SortNodes \/ ComputeEdges \/ PackNodes \/ Assemble
NextRepeat == Next \/ CallAgain
NextPick == PickTop
NextPack == Pack
NextOrder == OrderStart \/ OrderPass \/ OrderReturn
NextGrid ==
  \/ GridGroupTracks \/ GridBuildGroups
  \/ OrderStart \/ OrderPass \/ OrderReturn
  \/ GridFlatten

\* calculateCircleGraphLayout on a track list.
Spec == Init /\ [][Next]_vars
\* calculateCircleGraphLayout twice on the same track list.
SpecRepeat == InitRepeat /\ [][NextRepeat]_vars
\* buildGenreFrequency on a track list.
SpecFreq == InitFreq /\ [][NextFreq]_vars
\* calculateCircularTilePositions on the members of one cluster.
SpecRing == InitRing /\ [][NextRing]_vars
\* groupTracksByTopGenres on a track list and a threshold.
SpecGroup == InitGroup /\ [][NextGroup]_vars
\* pickTopGenres on a label list, a frequency table and maxGenres.
SpecPick == InitPick /\ [][NextPick]_vars
\* pickTopGenres on a label list, a frequency table and any maxGenres.
SpecPickAny == InitPickAny /\ [][NextPick]_vars
\* packCircles on a list of nodes.
SpecPack == InitPack /\ [][NextPack]_vars
\* orderGenresBySimilarity on a list of groups.
SpecOrder == InitOrder /\ [][NextOrder]_vars
\* computeGridLayout on a track list.
SpecGrid == InitGrid /\ [][NextGrid]_vars

----------------------------------------------------------------------------
(* Properties *)

\* The cluster builder has returned.
Grouped == pc \in {"grouped", "sorting", "edges", "packing", "assembling", "done"}
\* computeGenreEdges has returned.
EdgesComputed == pc \in {"packing", "assembling", "done"}

\* Every member slot of the clusters, as <<cluster, position>>.
MemberSlots(groups) ==
  UNION {{<<g, k>> : k \in 1..Len(groups[g].tracks)} : g \in 1..Len(groups)}

\* C1: the clusters returned by the cluster builder partition the input: every
\* input track is a member of exactly one cluster, exactly once, and every
\* member is an input track.
C1_Partition ==
  Grouped =>
    /\ \A i \in 1..Len(tracks) :
         Cardinality({sl \in MemberSlots(comboGroups) :
                        comboGroups[sl[1]].tracks[sl[2]].id = tracks[i].id}) = 1
    /\ \A sl \in MemberSlots(comboGroups) :
         \E i \in 1..Len(tracks) : comboGroups[sl[1]].tracks[sl[2]] = tracks[i]

\* C3: every cluster whose key is not "other" (the "uncategorized" cluster
\* included) has at least minTracks members.
C3_MinimumSize ==
  Grouped =>
    \A g \in 1..Len(comboGroups) :
      comboGroups[g].key # OTHER_KEY => Len(comboGroups[g].tracks) >= minTracks

\* C3's case: a threshold above 1, an undersized bucket folded into "other",
\* and an "uncategorized" cluster kept beside it.
C3_Witness ==
  /\ pc = "grouped"
  /\ minTracks > 1
  /\ \E g \in 1..Len(comboGroups) :
       comboGroups[g].key = OTHER_KEY /\ Len(comboGroups[g].tracks) < minTracks
  /\ \E g \in 1..Len(comboGroups) : comboGroups[g].key = UNCATEGORIZED_KEY

\* Squared distance between the centers of two nodes.
CenterDistanceSquared(a, b) ==
  (a.cx - b.cx) * (a.cx - b.cx) + (a.cy - b.cy) * (a.cy - b.cy)

\* The least distance the centers of two nodes may have.
Clearance(a, b) == a.radius + b.radius + 2 * CIRCLE_PADDING

\* C2: after packCircles the centers of any two distinct clusters are at least
\* the sum of their radii plus 2 x CIRCLE_PADDING apart, whatever the radii
\* and the order the clusters are passed in.
C2_NoOverlap ==
  pc = "packed" =>
    \A i \in 1..Len(packOut) : \A j \in 1..Len(packOut) :
      i # j => CenterDistanceSquared(packOut[i], packOut[j])
                 >= Clearance(packOut[i], packOut[j]) * Clearance(packOut[i], packOut[j])

\* C2's case: nodes passed in with a smaller radius before a larger one, two
\* of them packed into the same row and one into another row.
C2_Witness ==
  /\ pc = "packed"
  /\ \E i \in 1..Len(packIn) : \E j \in 1..Len(packIn) :
       i < j /\ packIn[i].radius < packIn[j].radius
  /\ \E i \in 1..Len(packOut) : \E j \in 1..Len(packOut) :
       /\ i # j
       /\ packOut[i].cy - packOut[i].radius = packOut[j].cy - packOut[j].radius
       /\ packOut[i].radius # packOut[j].radius
  /\ \E i \in 1..Len(packOut) : \E j \in 1..Len(packOut) :
       packOut[i].cy - packOut[i].radius # packOut[j].cy - packOut[j].radius

\* The set of elements of a sequence.
Range(seq) == {seq[i] : i \in 1..Len(seq)}

\* The edges of the layout that join the clusters keyed a and b.
EdgesBetween(a, b) ==
  {i \in 1..Len(edges) : {edges[i].sourceKey, edges[i].targetKey} = {a, b}}

\* C4: for any two distinct clusters of a layout there is an edge between them
\* if and only if their genre lists share a label, and the edge's sharedGenres
\* is exactly the intersection of the two genre lists, each label once.
C4_EdgeCorrectness ==
  EdgesComputed =>
    \A i \in 1..Len(nodes) : \A j \in 1..Len(nodes) :
      i < j =>
        LET common == Range(nodes[i].genres) \cap Range(nodes[j].genres)
            between == EdgesBetween(nodes[i].key, nodes[j].key)
        IN /\ (between # {}) <=> (common # {})
           /\ \A k \in between :
                /\ Range(edges[k].sharedGenres) = common
                /\ Len(edges[k].sharedGenres) = Cardinality(common)

\* C5: no edge of a layout connects a cluster to itself.
C5_NoSelfEdge ==
  EdgesComputed =>
    \A k \in 1..Len(edges) : edges[k].sourceKey # edges[k].targetKey

\* C6: the edge list holds at most one edge per unordered pair of clusters.
C6_OneEdgePerPair ==
  EdgesComputed =>
    \A k \in 1..Len(edges) : \A m \in 1..Len(edges) :
      k # m => {edges[k].sourceKey, edges[k].targetKey}
                 # {edges[m].sourceKey, edges[m].targetKey}

\* C7: the clusters keyed "other" and "uncategorized" have an empty genre list
\* and are never an endpoint of an edge.
C7_ReservedClusters ==
  EdgesComputed =>
    \A i \in 1..Len(nodes) :
      nodes[i].key \in {OTHER_KEY, UNCATEGORIZED_KEY} =>
        /\ nodes[i].genres = <<>>
        /\ \A k \in 1..Len(edges) :
             nodes[i].key \notin {edges[k].sourceKey, edges[k].targetKey}

\* How often x occurs in a sequence.
Occurrences(seq, x) == Cardinality({i \in 1..Len(seq) : seq[i] = x})

\* The lowercased labels of a label list.
Lowered(labels) == [i \in 1..Len(labels) |-> toLowerCase(labels[i])]

\* Every order of the elements of a sequence.
RECURSIVE Orderings(_)
Orderings(seq) ==
  IF seq = <<>> THEN {<<>>}
  ELSE UNION {{<<seq[i]>> \o rest :
                 rest \in Orderings(SubSeq(seq, 1, i - 1) \o SubSeq(seq, i + 1, Len(seq)))} :
              i \in 1..Len(seq)}

\* Every way of writing the labels of a list in another letter case.
RECURSIVE CaseLists(_)
CaseLists(labels) ==
  IF labels = <<>> THEN {<<>>}
  ELSE {<<l>> \o rest :
          l \in {x \in PickLabels : toLowerCase(x) = toLowerCase(Head(labels))},
          rest \in CaseLists(Tail(labels))}

\* The permutations of a label list, in any letter case.
Variants(labels) == UNION {CaseLists(p) : p \in Orderings(labels)}

\* C8: the combo picked for a track never contains the same lowercased label
\* twice.
C8_ComboDistinct ==
  pc = "picked" =>
    \A i \in 1..Len(pickOut) : \A j \in 1..Len(pickOut) :
      i # j => pickOut[i] # pickOut[j]

\* C9: for a fixed frequency table and K the combo and its key depend only on
\* the labels, not on their order or letter case: every permutation of the
\* label list, in any letter case, gives the combo that was returned.
C9_OrderIndependent ==
  pc = "picked" =>
    \A other \in Variants(pickIn.genres.labels) :
      LET combo == pickTopGenres(Genres(other), pickIn.freq, pickIn.maxGenres)
      IN /\ combo = pickOut
         /\ ComboKey(combo) = ComboKey(pickOut)

\* C9's case: more than K labels, all different, handed in out of alphabetical
\* order, and a combo that is not the first K labels as handed in.
C9_Witness ==
  /\ pc = "picked"
  /\ Len(pickIn.genres.labels) > pickIn.maxGenres
  /\ Cardinality(Range(Lowered(pickIn.genres.labels))) = Len(pickIn.genres.labels)
  /\ StrLess(toLowerCase(pickIn.genres.labels[2]), toLowerCase(pickIn.genres.labels[1]))
  /\ pickOut # SubSeq(Lowered(pickIn.genres.labels), 1, pickIn.maxGenres)
  /\ \E l \in Range(pickIn.genres.labels) : l # toLowerCase(l)

\* The label occurrences of the track that the combo leaves out.
LeftOut(normalized, combo) ==
  {x \in Range(normalized) : Occurrences(normalized, x) > Occurrences(combo, x)}

\* C10: with more than K labels the combo is K of the track's lowercased
\* labels in alphabetical order, no label left out has a strictly higher
\* frequency than a label kept, and among equal frequencies the
\* alphabetically smaller label is kept.
C10_TopK ==
  (pc = "picked" /\ Len(pickIn.genres.labels) > pickIn.maxGenres) =>
    LET normalized == Lowered(pickIn.genres.labels)
    IN /\ Len(pickOut) = pickIn.maxGenres
       /\ \A x \in Range(pickOut) : Occurrences(pickOut, x) <= Occurrences(normalized, x)
       /\ \A i \in 1..(Len(pickOut) - 1) : ~StrLess(pickOut[i + 1], pickOut[i])
       /\ \A x \in LeftOut(normalized, pickOut) : \A y \in Range(pickOut) :
            /\ FreqGet(pickIn.freq, x) <= FreqGet(pickIn.freq, y)
            /\ FreqGet(pickIn.freq, x) = FreqGet(pickIn.freq, y) => ~StrLess(x, y)

\* C10's case: a label is left out that is as frequent as a kept one, and
\* another kept label is strictly more frequent than the one left out.
C10_Witness ==
  /\ pc = "picked"
  /\ Len(pickIn.genres.labels) > pickIn.maxGenres
  /\ \E x \in LeftOut(Lowered(pickIn.genres.labels), pickOut) :
       /\ x \notin Range(pickOut)
       /\ \E y \in Range(pickOut) : FreqGet(pickIn.freq, x) = FreqGet(pickIn.freq, y)
       /\ \E y \in Range(pickOut) : FreqGet(pickIn.freq, x) < FreqGet(pickIn.freq, y)

\* The summed length of the strings of a list.
RECURSIVE TotalLen(_)
TotalLen(strs) == IF strs = <<>> THEN 0 ELSE Len(Head(strs)) + TotalLen(Tail(strs))

\* C11: for a track with between 1 and K labels the combo is all of its labels
\* lowercased (each as often as the track lists it) in alphabetical order,
\* whatever the frequency table, and the cluster key is those labels with a
\* "/" between neighbours.
C11_ShortList ==
  (pc = "picked" /\ Len(pickIn.genres.labels) >= 1
                 /\ Len(pickIn.genres.labels) <= pickIn.maxGenres) =>
    LET normalized == Lowered(pickIn.genres.labels)
        key == ComboKey(pickOut)
    IN /\ Len(pickOut) = Len(normalized)
       /\ \A x \in Range(normalized) : Occurrences(pickOut, x) = Occurrences(normalized, x)
       /\ \A i \in 1..(Len(pickOut) - 1) : ~StrLess(pickOut[i + 1], pickOut[i])
       /\ split(key, SLASH) = pickOut
       /\ Len(key) = TotalLen(pickOut) + Len(pickOut) - 1

\* C11's case: exactly K = 2 labels, handed in out of alphabetical order and
\* in upper case, the alphabetically later one the more frequent.
C11_Witness ==
  /\ pc = "picked"
  /\ pickIn.maxGenres = 2 /\ Len(pickIn.genres.labels) = 2
  /\ StrLess(toLowerCase(pickIn.genres.labels[2]), toLowerCase(pickIn.genres.labels[1]))
  /\ pickIn.genres.labels[1] # toLowerCase(pickIn.genres.labels[1])
  /\ FreqGet(pickIn.freq, toLowerCase(pickIn.genres.labels[1]))
       > FreqGet(pickIn.freq, toLowerCase(pickIn.genres.labels[2]))
  /\ pickOut = <<toLowerCase(pickIn.genres.labels[2]), toLowerCase(pickIn.genres.labels[1])>>

\* C12: a track whose label list is absent (null) or empty gets the empty
\* combo and the key "uncategorized"; a track with at least one label never
\* gets the empty combo.
C12_NoLabels ==
  pc = "picked" =>
    IF pickIn.genres.isNull \/ Len(pickIn.genres.labels) = 0
    THEN pickOut = <<>> /\ ComboKey(pickOut) = UNCATEGORIZED_KEY
    ELSE Len(pickOut) >= 1

\* C12's case: the label list is null, the frequency table is not empty.
C12_Witness ==
  /\ pc = "picked"
  /\ pickIn.genres.isNull
  /\ DOMAIN pickIn.freq # {}
  /\ pickOut = <<>>

\* Every label occurrence of a track list, as <<track, position>>; a track with
\* no label list has none.
LabelOccurrences(ts) ==
  UNION {{<<t, l>> : l \in 1..Len(ts[t].nts_genres.labels)} :
         t \in {u \in 1..Len(ts) : ~ts[u].nts_genres.isNull}}

\* The lowercased label at an occurrence.
OccurrenceKey(ts, o) == toLowerCase(ts[o[1]].nts_genres.labels[o[2]])

\* C13: buildGenreFrequency maps each lowercased label to the number of
\* (track, label occurrence) pairs carrying it: labels differing only in case
\* are counted together, a label listed twice on a track counts twice, tracks
\* without a label list contribute nothing, labels that never occur are
\* absent, and the empty track list gives the empty map.
C13_Frequency ==
  pc = "grouping" =>
    LET occ == LabelOccurrences(tracks)
    IN /\ DOMAIN freq = {OccurrenceKey(tracks, o) : o \in occ}
       /\ \A k \in DOMAIN freq :
            freq[k] = Cardinality({o \in occ : OccurrenceKey(tracks, o) = k})
       /\ tracks = <<>> => DOMAIN freq = {}

\* C13's case: a track without a label list, a label listed twice on one
\* track, the same label in another case on another track, and a second key.
C13_Witness ==
  /\ pc = "grouping"
  /\ \E t \in 1..Len(tracks) : tracks[t].nts_genres.isNull
  /\ \E t \in 1..Len(tracks) : tracks[t].nts_genres.labels = <<JAZZ, FUNK, JAZZ>>
  /\ \E t \in 1..Len(tracks) : tracks[t].nts_genres.labels = <<JAZZ_CAP, JAZZ>>
  /\ freq = (JAZZ :> 4) @@ (FUNK :> 1)

\* The outer radius the ring packer gives the cluster of a node with one more
\* member.
RadiusWithOneMore(node) ==
  calculateCircularTilePositions(
    Append(node.tracks, Track(Len(node.tracks) + 1, NullGenres)), node.key).radius

\* C14: the outer radius returned by the ring packer is non-decreasing in the
\* number of members (radius(N+1) >= radius(N) for N >= 1), and the radius of
\* a one-member cluster is TILE_SIZE/2, the smallest of any non-empty cluster.
C14_RingMonotone ==
  (pc = "sorting" /\ Len(nodes) = 1 /\ Len(nodes[1].tracks) >= 1) =>
    /\ RadiusWithOneMore(nodes[1]) >= nodes[1].radius
    /\ 2 * nodes[1].radius >= TILE_SIZE
    /\ Len(nodes[1].tracks) = 1 => 2 * nodes[1].radius = TILE_SIZE

\* C14's case: the first ring is full, so one more member opens the second
\* ring and the radius grows.
C14_Witness ==
  /\ pc = "sorting" /\ Len(nodes) = 1
  /\ Len(nodes[1].tracks) = 1 + RingCapacity(1)
  /\ nodes[1].tilePositions[Len(nodes[1].tilePositions)].ring = 1
  /\ RadiusWithOneMore(nodes[1]) > nodes[1].radius

ComboOf(track) == pickTopGenres(track.nts_genres, freq, MAX_GENRES_PER_TRACK)

\* The layout has exactly one cluster, holding every input track, and no edge.
OneClusterNoEdges ==
  /\ Len(nodes) = 1
  /\ Len(nodes[1].tracks) = Len(tracks)
  /\ Range(nodes[1].tracks) = Range(tracks)
  /\ edges = <<>>

\* C16: degenerate inputs give a layout: the empty track list gives no
\* clusters, no edges, an empty key lookup and total width and height 0; a
\* list in which no track has labels, and a list in which every track has the
\* same combo, give exactly one cluster holding all tracks, and no edges.
C16_Degenerate ==
  pc = "done" =>
    /\ tracks = <<>> =>
          /\ nodes = <<>> /\ edges = <<>> /\ nodeMap = <<>>
          /\ totalWidth = 0 /\ totalHeight = 0
    /\ (tracks # <<>> /\ \A t \in 1..Len(tracks) : ComboOf(tracks[t]) = <<>>)
          => OneClusterNoEdges
    /\ (tracks # <<>> /\ \A t \in 1..Len(tracks) : ComboOf(tracks[t]) = ComboOf(tracks[1]))
          => OneClusterNoEdges

\* The natural combo buckets (the groups of the first pass) with fewer than
\* minTracks tracks.
Undersized == {g \in 1..Len(rawGroups) : Len(rawGroups[g].tracks) < minTracks}

\* The clusters of the output keyed "other".
OtherClusters == {c \in 1..Len(comboGroups) : comboGroups[c].key = OTHER_KEY}

\* C17: every track of a natural combo bucket with fewer than minTracks tracks
\* is a member of the "other" cluster of the output; the "other" cluster
\* exists only when some bucket is undersized; and when every bucket is
\* undersized the output is exactly one cluster, keyed "other", holding all
\* input tracks.
C17_FoldIntoOther ==
  pc = "grouped" =>
    /\ \A g \in Undersized : \A k \in 1..Len(rawGroups[g].tracks) :
         \E c \in OtherClusters : rawGroups[g].tracks[k] \in Range(comboGroups[c].tracks)
    /\ OtherClusters # {} => Undersized # {}
    /\ (tracks # <<>> /\ Undersized = 1..Len(rawGroups)) =>
         /\ Len(comboGroups) = 1
         /\ comboGroups[1].key = OTHER_KEY
         /\ Len(comboGroups[1].tracks) = Len(tracks)
         /\ Range(comboGroups[1].tracks) = Range(tracks)

\* C18: a precondition violation is reported as a failure and never silently
\* coerced: the combo assigner called with a maximum genre count K <= 0 does
\* not return a combo.
C18_FailFast ==
  pickIn.maxGenres <= 0 => pc # "picked"

\* C19: computing a layout leaves its input unchanged: no step of
\* calculateCircleGraphLayout changes the input track sequence, the tracks in
\* it, or the labels, their order or their case in a track's label list.
C19_InputUnchanged == [][tracks' = tracks]_vars

\* C19's case: a layout has been returned for tracks whose labels are in upper
\* case and out of alphabetical order, and the cluster's genre list is the
\* lowercased, sorted list.
C19_Witness ==
  /\ pc = "done"
  /\ \E t \in 1..Len(tracks) : tracks[t].nts_genres.labels = <<SOUL, JAZZ>>
  /\ \E t \in 1..Len(tracks) : tracks[t].nts_genres.labels = <<JAZZ_CAP, JAZZ>>
  /\ \E i \in 1..Len(nodes) :
       /\ nodes[i].genres = <<JAZZ, SOUL>>
       /\ \A k \in 1..Len(nodes[i].tracks) :
            nodes[i].tracks[k].nts_genres.labels = <<SOUL, JAZZ>>

\* C20: in the order in which calculateCircleGraphLayout hands the clusters to
\* packCircles a cluster never precedes one of larger outer radius, and of two
\* clusters with the same radius the one with the smaller key comes first.
C20_PackOrder ==
  pc = "packing" =>
    \A i \in 1..Len(nodes) : \A j \in 1..Len(nodes) :
      i < j =>
        /\ nodes[i].radius >= nodes[j].radius
        /\ nodes[i].radius = nodes[j].radius => StrLess(nodes[i].key, nodes[j].key)

\* The left edge and the top of a packed node, and the width it takes in its
\* row.
NodeLeft(n) == n.cx - n.radius
NodeTop(n) == n.cy - n.radius
NodeDiameter(n) == n.radius * 2 + CIRCLE_PADDING

\* The first node of the row that node i of a packed list is in.
RowStart(ns, i) ==
  CHOOSE s \in 1..i :
    /\ \A k \in s..i : NodeTop(ns[k]) = NodeTop(ns[i])
    /\ s = 1 \/ NodeTop(ns[s - 1]) # NodeTop(ns[i])

\* The largest diameter-plus-padding among nodes s..e.
RowHeight(ns, s, e) ==
  CHOOSE h \in {NodeDiameter(ns[k]) : k \in s..e} :
    \A k \in s..e : NodeDiameter(ns[k]) <= h

\* Whether node i of a packed list passes the target width if put after
\* node i - 1.
PassesTarget(ns, i) ==
  ExceedsTargetWidth(NodeLeft(ns[i - 1]) + NodeDiameter(ns[i - 1]) + CIRCLE_PADDING
                       + NodeDiameter(ns[i]),
                     TotalArea(ns))

\* C21: packCircles starts a new row only when the next cluster would pass the
\* target width and the current row already holds a cluster: every cluster is
\* placed, the first at the left padding of the first row; a later cluster
\* follows its predecessor in the same row unless it would pass the target
\* width, and then it starts a row at the previous row's top plus that row's
\* largest diameter-plus-padding plus the padding, with X reset to the left
\* padding; a cluster that passes the target width from the start of a row is
\* placed there, alone in its row.
C21_RowWrap ==
  pc = "packed" =>
    /\ Len(packOut) = Len(packIn)
    /\ \A i \in 1..Len(packOut) :
         /\ packOut[i].radius = packIn[i].radius
         /\ IF i = 1
            THEN /\ NodeLeft(packOut[i]) = CIRCLE_PADDING
                 /\ NodeTop(packOut[i]) = CIRCLE_PADDING
            ELSE IF PassesTarget(packOut, i)
            THEN /\ NodeLeft(packOut[i]) = CIRCLE_PADDING
                 /\ NodeTop(packOut[i]) =
                      NodeTop(packOut[i - 1])
                        + RowHeight(packOut, RowStart(packOut, i - 1), i - 1)
                        + CIRCLE_PADDING
            ELSE /\ NodeLeft(packOut[i]) =
                      NodeLeft(packOut[i - 1]) + NodeDiameter(packOut[i - 1])
                        + CIRCLE_PADDING
                 /\ NodeTop(packOut[i]) = NodeTop(packOut[i - 1])
         /\ ExceedsTargetWidth(CIRCLE_PADDING + NodeDiameter(packOut[i]),
                               TotalArea(packOut)) =>
              /\ NodeLeft(packOut[i]) = CIRCLE_PADDING
              /\ \A j \in 1..Len(packOut) :
                   j # i => NodeTop(packOut[j]) # NodeTop(packOut[i])

\* C21's case: a row of two clusters, the first the larger, and a third
\* cluster that passes the target width and starts the next row below the
\* larger one.
C21_Witness ==
  /\ pc = "packed"
  /\ \E i \in 3..Len(packOut) :
       /\ PassesTarget(packOut, i)
       /\ RowStart(packOut, i - 1) = i - 2
       /\ packOut[i - 2].radius > packOut[i - 1].radius
       /\ NodeLeft(packOut[i]) = CIRCLE_PADDING
       /\ NodeTop(packOut[i]) =
            NodeTop(packOut[i - 2]) + NodeDiameter(packOut[i - 2]) + CIRCLE_PADDING

\* The right and bottom edge of a node's circle with its padding.
PaddedRight(n) == n.cx + n.radius + CIRCLE_PADDING
PaddedBottom(n) == n.cy + n.radius + CIRCLE_PADDING

\* C22: the layout's bounding box contains every padded cluster circle: for
\* every cluster cx - radius - CIRCLE_PADDING >= 0, cy - radius -
\* CIRCLE_PADDING >= 0, cx + radius + CIRCLE_PADDING <= totalWidth and
\* cy + radius + CIRCLE_PADDING <= totalHeight, and totalWidth and totalHeight
\* are each reached by at least one cluster when the layout is not empty.
C22_BoundingBox ==
  pc = "done" =>
    /\ \A i \in 1..Len(nodes) :
         /\ nodes[i].cx - nodes[i].radius - CIRCLE_PADDING >= 0
         /\ nodes[i].cy - nodes[i].radius - CIRCLE_PADDING >= 0
         /\ PaddedRight(nodes[i]) <= totalWidth
         /\ PaddedBottom(nodes[i]) <= totalHeight
    /\ nodes # <<>> =>
         /\ \E i \in 1..Len(nodes) : PaddedRight(nodes[i]) = totalWidth
         /\ \E i \in 1..Len(nodes) : PaddedBottom(nodes[i]) = totalHeight

\* C22's case: a layout of two clusters of different radius in two rows: the
\* width is reached by one only, the height by the other only.
C22_Witness ==
  /\ pc = "done" /\ Len(nodes) = 2
  /\ nodes[1].radius > nodes[2].radius
  /\ PaddedRight(nodes[1]) = totalWidth /\ PaddedRight(nodes[2]) < totalWidth
  /\ PaddedBottom(nodes[2]) = totalHeight /\ PaddedBottom(nodes[1]) < totalHeight

\* The tile positions of a cluster that are on ring r.
OnRing(ps, r) == {i \in 1..Len(ps) : ps[i].ring = r}

\* The outermost ring a tile position of a cluster is on.
LastRing(ps) ==
  CHOOSE r \in {ps[i].ring : i \in 1..Len(ps)} : \A i \in 1..Len(ps) : ps[i].ring <= r

\* The members of a cluster of n members left for ring r: those on no ring
\* inside it.
LeftFor(ps, n, r) == n - Cardinality({i \in 1..Len(ps) : ps[i].ring < r})

\* The smaller of two numbers.
Min(a, b) == IF a < b THEN a ELSE b

\* C23: the ring packer fills rings from the inside out: the first member is
\* alone on ring 0, ring r >= 1 receives min(capacity(r), members left)
\* members with capacity(r) >= 6, ring r + 1 (r >= 1) receives a member only
\* when ring r holds exactly capacity(r) members, and the rings used are 0..R
\* with no ring skipped.
C23_InsideOut ==
  (pc = "sorting" /\ Len(nodes) = 1 /\ Len(nodes[1].tracks) >= 1) =>
    LET ps == nodes[1].tilePositions
        n == Len(nodes[1].tracks)
        R == LastRing(ps)
    IN /\ OnRing(ps, 0) = {1}
       /\ ps[1].trackId = nodes[1].tracks[1].id
       /\ \A r \in 1..R :
            /\ RingCapacity(r) >= 6
            /\ Cardinality(OnRing(ps, r)) = Min(RingCapacity(r), LeftFor(ps, n, r))
       /\ \A r \in 1..(R - 1) :
            OnRing(ps, r + 1) # {} => Cardinality(OnRing(ps, r)) = RingCapacity(r)
       /\ {ps[i].ring : i \in 1..Len(ps)} = 0..R

\* C23's case: ring 1 holds its 6 members, ring 2 is full with more than 6,
\* and ring 3 is open and not full.
C23_Witness ==
  /\ pc = "sorting" /\ Len(nodes) = 1 /\ nodes[1].tilePositions # <<>>
  /\ LastRing(nodes[1].tilePositions) = 3
  /\ Cardinality(OnRing(nodes[1].tilePositions, 1)) = 6
  /\ Cardinality(OnRing(nodes[1].tilePositions, 2)) > 6
  /\ Cardinality(OnRing(nodes[1].tilePositions, 3)) < RingCapacity(3)

\* C24 as stated: ring r of a cluster has radius r * (tileSize + gap), gap
\* being the tile gap or the ring gap, and the cluster's outer radius is the
\* radius of its last used ring plus tileSize/2; a cluster of exactly one
\* member uses no ring and has outer radius tileSize/2.
C24_RingRadius ==
  (pc = "sorting" /\ Len(nodes) = 1 /\ Len(nodes[1].tracks) >= 1) =>
    LET ps == nodes[1].tilePositions
    IN IF Len(nodes[1].tracks) = 1
       THEN LastRing(ps) = 0 /\ 2 * nodes[1].radius = TILE_SIZE
       ELSE \E gap \in {TILE_GAP, RING_GAP} :
              2 * nodes[1].radius = 2 * LastRing(ps) * (TILE_SIZE + gap) + TILE_SIZE

\* C24, amended: ring r of a cluster has radius r * (tileSize + tileGap +
\* ringGap), and the cluster's outer radius is the radius of its last used
\* ring plus tileSize/2; a cluster of exactly one member uses no ring and has
\* outer radius tileSize/2.
C24_RingRadiusBothGaps ==
  (pc = "sorting" /\ Len(nodes) = 1 /\ Len(nodes[1].tracks) >= 1) =>
    LET ps == nodes[1].tilePositions
    IN IF Len(nodes[1].tracks) = 1
       THEN LastRing(ps) = 0 /\ 2 * nodes[1].radius = TILE_SIZE
       ELSE /\ LastRing(ps) >= 1
            /\ 2 * nodes[1].radius =
                 2 * LastRing(ps) * (TILE_SIZE + TILE_GAP + RING_GAP) + TILE_SIZE

\* C24's case: a cluster whose last used ring is ring 3, of outer radius
\* 3 * 48 + 20.
C24_Witness ==
  /\ pc = "sorting" /\ Len(nodes) = 1 /\ nodes[1].tilePositions # <<>>
  /\ LastRing(nodes[1].tilePositions) = 3
  /\ nodes[1].radius = 164

\* The frequency table counts every label occurrence of the input.
FreqComplete ==
  /\ DOMAIN freq = {OccurrenceKey(tracks, o) : o \in LabelOccurrences(tracks)}
  /\ \A k \in DOMAIN freq :
       freq[k] = Cardinality({o \in LabelOccurrences(tracks) :
                                OccurrenceKey(tracks, o) = k})

\* Every track grouped so far is under the key of the combo that the
\* frequency table gives it.
PicksFollowTable ==
  \A g \in 1..Len(rawGroups) : \A k \in 1..Len(rawGroups[g].tracks) :
    rawGroups[g].key = ComboKey(ComboOf(rawGroups[g].tracks[k]))

\* The ring packing of a node is complete: a tile per member, and the radius
\* that of the outermost ring used.
RingPackingDone(node) ==
  /\ Len(node.tilePositions) = Len(node.tracks)
  /\ 2 * node.radius =
       IF Len(node.tracks) = 1 THEN TILE_SIZE
       ELSE 2 * LastRing(node.tilePositions) * (TILE_SIZE + TILE_GAP + RING_GAP)
              + TILE_SIZE

\* Strip packing has started.
PackingStarted == pc \in {"packing", "assembling", "done"}

\* C25: in one layout computation the steps run in dependency order: the
\* frequency table is complete before any track's combo is picked, every
\* cluster's ring packing (and so its final radius) is complete before strip
\* packing reads any radius, and no radius or member list changes after strip
\* packing starts.
C25_DependencyOrder ==
  /\ [](rawGroups # <<>> => (FreqComplete /\ PicksFollowTable))
  /\ [](PackingStarted => \A i \in 1..Len(nodes) : RingPackingDone(nodes[i]))
  /\ [][PackingStarted =>
          /\ Len(nodes') = Len(nodes)
          /\ \A i \in 1..Len(nodes) :
               /\ nodes'[i].radius = nodes[i].radius
               /\ nodes'[i].tracks = nodes[i].tracks
               /\ nodes'[i].tilePositions = nodes[i].tilePositions]_vars

\* C25's case: strip packing has placed a cluster of several members, among
\* them a track with three labels that is in the cluster of the two labels
\* the complete table ranks first, which are not its alphabetically first two.
C25_Witness ==
  /\ pc = "assembling" /\ Len(nodes) = 1
  /\ Len(nodes[1].tracks) > 1
  /\ nodes[1].radius > TILE_SIZE
  /\ nodes[1].cx = CIRCLE_PADDING + nodes[1].radius
  /\ nodes[1].genres = <<JAZZ, SOUL>>
  /\ \E k \in 1..Len(nodes[1].tracks) :
       nodes[1].tracks[k].nts_genres.labels = <<FUNK, SOUL, JAZZ>>

\* The similarity of two groups.
Sim(g, h) == cosineSimilarity(g.tagProfile, h.tagProfile)

C27_Terminates ==
  pc \in {"loop", "ordered"} /\ normal # <<>> =>
    /\ Len(ordered) = 1 + passes
    /\ passes < Len(normal)

\* The concatenation of the track lists of a list of groups.
RECURSIVE ConcatTracks(_)
ConcatTracks(gs) ==
  IF gs = <<>> THEN <<>> ELSE Head(gs).tracks \o ConcatTracks(Tail(gs))

\* The first two parts of C28: flatTracks is the concatenation of the ordered
\* groups' track lists, and groupBoundaries has one entry per ordered group,
\* the first 0 and each next one larger by the size of the group before.
FlatAndBoundaries ==
  /\ flatTracks = ConcatTracks(orderedGroups)
  /\ Len(groupBoundaries) = Len(orderedGroups)
  /\ groupBoundaries # <<>> => groupBoundaries[1] = 0
  /\ \A i \in 1..(Len(groupBoundaries) - 1) :
       groupBoundaries[i + 1] - groupBoundaries[i] = Len(orderedGroups[i].tracks)

\* C28: in the result of computeGridLayout, flatTracks is the concatenation of
\* the ordered groups' track lists, groupBoundaries has one entry per ordered
\* group with groupBoundaries[0] = 0 and groupBoundaries[i+1] -
\* groupBoundaries[i] equal to the size of group i, and the length of
\* flatTracks equals the number of input tracks.
C28_FlatTracks ==
  pc = "flattened" =>
    /\ FlatAndBoundaries
    /\ Len(flatTracks) = Len(tracks)

\* C29: for a cluster of N members the ring packer returns exactly N tile
\* positions, the i-th position carrying the id of the i-th member in received
\* order; no two positions share the same (ring, angleIndex) pair, and on
\* every ring r >= 1 the angle indices used are exactly 0..n-1 for the n
\* members on that ring, with n <= capacity(r).
C29_TilePositions ==
  (pc = "sorting" /\ Len(nodes) = 1) =>
    LET ps == nodes[1].tilePositions
        members == nodes[1].tracks
    IN /\ Len(ps) = Len(members)
       /\ \A i \in 1..Len(ps) : ps[i].trackId = members[i].id
       /\ \A i \in 1..Len(ps) : \A j \in 1..Len(ps) :
            i # j => <<ps[i].ring, ps[i].angleIndex>> # <<ps[j].ring, ps[j].angleIndex>>
       /\ \A r \in 1..LastRing(ps) :
            /\ {ps[i].angleIndex : i \in OnRing(ps, r)}
                 = 0..(Cardinality(OnRing(ps, r)) - 1)
            /\ Cardinality(OnRing(ps, r)) <= RingCapacity(r)

\* C29's case: a cluster with a full ring 1 and a partly filled ring 2; the
\* angle index 0 is used on both, by the second and the eighth member.
C29_Witness ==
  /\ pc = "sorting" /\ Len(nodes) = 1
  /\ Len(nodes[1].tilePositions) > 8
  /\ LastRing(nodes[1].tilePositions) = 2
  /\ Cardinality(OnRing(nodes[1].tilePositions, 2)) < RingCapacity(2)
  /\ nodes[1].tilePositions[2].angleIndex = 0 /\ nodes[1].tilePositions[2].ring = 1
  /\ nodes[1].tilePositions[8].angleIndex = 0 /\ nodes[1].tilePositions[8].ring = 2
  /\ nodes[1].tilePositions[8].trackId = nodes[1].tracks[8].id

\* C30: in every cluster whose key is not "other", all members have the same
\* top-genre combo and that combo equals the cluster's genre list (so the
\* genre list used for edges describes every member), for every input
\* including tracks whose label is literally "uncategorized" or contains the
\* "/" separator.
C30_ClusterCombo ==
  pc = "done" =>
    \A i \in 1..Len(nodes) :
      nodes[i].key # OTHER_KEY =>
        \A k \in 1..Len(nodes[i].tracks) :
          ComboOf(nodes[i].tracks[k]) = nodes[i].genres

====
